---- MODULE Spec2Model ----
(***************************************************************************)
(* Model of tiktokacc_web.  The polling file watcher (file_watcher.py):     *)
(* FileWatcher.scan_files / check_changes / watch_loop / start / stop and  *)
(* the TikTokFileWatcher glue that wires the watcher to the data manager.  *)
(*                                                                         *)
(* It also models TikTokDataManager (tiktok_data_manager.py):               *)
(* parse_data_directory, _calculate_data_hash, save_cache / load_cache and *)
(* get_data, with the data directory and the cache file they work on.      *)
(*                                                                         *)
(* A snapshot (Dict[str, float]) is a function whose DOMAIN is the set of   *)
(* keys.  The watched directory is a function from the names of the files  *)
(* that exist to their modification times.                                 *)
(***************************************************************************)
EXTENDS Integers, FiniteSets, Sequences, TLC

\* ------------------------------------------------------------------ bounds
MaxMtime == 2
MaxThreads == 2
MaxBurst == 2

Mtimes == 1..MaxMtime
Threads == 1..MaxThreads
NoThread == 0

\* Files that may exist below watch_dir; only names ending in .txt qualify.
Paths == {"a.txt", "b.txt", "n.log"}
TxtPaths == {"a.txt", "b.txt"}
\* The mtime of a file that does not qualify is never read: one value stands for it.
MtimesOf(p) == IF p \in TxtPaths THEN Mtimes ELSE {1}

VARIABLES
    fs,           \* existing files below watch_dir: [subset of Paths -> Mtimes]
    dirExists,    \* watch_dir.exists()
    file_states,  \* FileWatcher.file_states
    is_running,   \* FileWatcher.is_running
    thread,       \* FileWatcher.thread: the latest Thread object, or NoThread
    pc,           \* position of every watch_loop thread
    caller,       \* the single caller of start()/stop(): "idle" or "joining"
    track,        \* which history the run records (fixed by the specification)
    quiet,        \* history: check_changes() calls since the last file-system change
    delTrack,     \* history: calls after the deletion of a baseline file
    scen,         \* history: start() on an empty directory, then one file added
    pending,      \* history: the thread whose callback raised, no change or poll since
    startOp,      \* history: what the latest start() call did
    burst,        \* history: directory changes since the latest poll, and before it
    tw_enabled,   \* TikTokFileWatcher.config['file_watcher']['enabled']
    tw_data_manager, \* TikTokFileWatcher.data_manager
    tw_watcher,   \* TikTokFileWatcher.watcher
    twOp,         \* history: the latest TikTokFileWatcher operation
    artifact,     \* the exported JSON artifact: <<>> or <<the directory it was built from>>
    data_path,    \* TikTokDataManager.data_path: "None", "missing" or a directory
    tree,         \* the directory tree below data_path: region -> country -> file
    tree_mtime,   \* the modification time of the files of the tree
    cache_file,   \* the file data_cache.json: [kind, data]
    saving,       \* per execution context: <<>> or <<the aggregate save_cache is writing>>
    parsed,       \* history: <<>> or <<the latest parse_data_directory() call>>
    dmOp,         \* history: the latest get_data() call
    output_file,  \* the file export_to_json() writes: [kind, data]
    exOp,         \* history: the latest export_to_json() / refresh_data_file() call
    account_file, \* a bracket file as text: [readable, lines]
    account_count \* <<>> or <<what read_account_file() returned for account_file>>

fwVars == <<file_states, is_running, thread, pc, caller>>
histVars == <<track, quiet, delTrack, scen, pending, startOp, burst>>
twCore == <<tw_enabled, tw_data_manager, tw_watcher, artifact>>
twVars == <<twCore, twOp>>
dmVars == <<data_path, tree, tree_mtime, cache_file, saving, parsed, dmOp,
            output_file, exOp, account_file, account_count>>
vars == <<fs, dirExists, fwVars, histVars, twVars, dmVars>>

EmptyMap == [p \in {} |-> 0]

\* ------------------------------------------------------------ FileWatcher
\* scan_files(): missing root -> {}, else every *.txt file with its mtime.
scan_files(f, exists) ==
    IF ~exists
    THEN EmptyMap
    ELSE [p \in {q \in DOMAIN f : q \in TxtPaths} |-> f[p]]

\* check_changes() without the second loop: deleted files go unnoticed.
check_changes_ignores_deletion(prev, cur) ==
    IF \E p \in DOMAIN cur : p \notin DOMAIN prev \/ prev[p] # cur[p]
    THEN [ret |-> TRUE, file_states |-> cur]
    ELSE [ret |-> FALSE, file_states |-> prev]

\* check_changes() reporting an added or modified file without committing it.
check_changes_keeps_baseline(prev, cur) ==
    IF \E p \in DOMAIN cur : p \notin DOMAIN prev \/ prev[p] # cur[p]
    THEN [ret |-> TRUE, file_states |-> prev]
    ELSE IF \E p \in DOMAIN prev : p \notin DOMAIN cur
         THEN [ret |-> TRUE, file_states |-> cur]
         ELSE [ret |-> FALSE, file_states |-> prev]

\* check_changes() reporting a deletion without committing the new snapshot.
check_changes_deletion_uncommitted(prev, cur) ==
    IF \E p \in DOMAIN cur : p \notin DOMAIN prev \/ prev[p] # cur[p]
    THEN [ret |-> TRUE, file_states |-> cur]
    ELSE IF \E p \in DOMAIN prev : p \notin DOMAIN cur
         THEN [ret |-> TRUE, file_states |-> prev]
         ELSE [ret |-> FALSE, file_states |-> prev]

\* check_changes() comparing the paths only: a changed mtime goes unnoticed.
check_changes_ignores_modification(prev, cur) ==
    IF \E p \in DOMAIN cur : p \notin DOMAIN prev
    THEN [ret |-> TRUE, file_states |-> cur]
    ELSE IF \E p \in DOMAIN prev : p \notin DOMAIN cur
         THEN [ret |-> TRUE, file_states |-> cur]
         ELSE [ret |-> FALSE, file_states |-> prev]

\* check_changes(): prev is self.file_states, cur the fresh scan.  The first
\* loop looks for added or modified files, the second for deleted ones; either
\* commits cur and returns True.  Otherwise file_states is not assigned.
check_changes(prev, cur) ==
    IF \E p \in DOMAIN cur : p \notin DOMAIN prev \/ prev[p] # cur[p]
    THEN [ret |-> TRUE, file_states |-> cur]
    ELSE IF \E p \in DOMAIN prev : p \notin DOMAIN cur
         THEN [ret |-> TRUE, file_states |-> cur]
         ELSE [ret |-> FALSE, file_states |-> prev]

\* watch_loop calling the callback after every poll.
after_check_always_calls(ret) == "callback"

\* watch_loop lines 84-85: if self.check_changes(): ... self.callback();
\* otherwise the thread goes on to time.sleep(check_interval).
after_check(ret) == IF ret THEN "callback" ELSE "sleep"

\* A callback exception that escapes the inner try and ends the thread.
after_callback_dies(outcome) ==
    IF outcome = "raise" THEN "done" ELSE "sleep"

\* watch_loop lines 86-91: the callback's exception is caught and logged; in
\* both cases the thread goes on to time.sleep(check_interval).
after_callback(outcome) ==
    IF outcome = "raise" THEN "sleep" ELSE "sleep"

\* The lowest thread slot not executing watch_loop.
\* Line 82 with the stop flag ignored.
loop_condition_ignores_stop(running) == TRUE

\* Line 82: while self.is_running.
loop_condition(running) == running

FreeSlots(pcs) == {t \in Threads : pcs[t] \in {"unborn", "done"}}
NewSlot(pcs) == CHOOSE t \in FreeSlots(pcs) : \A u \in FreeSlots(pcs) : t <= u

\* start() that does not look at is_running.
start_unguarded(running, th, pcs) ==
    [is_running |-> TRUE, thread |-> NewSlot(pcs),
     pc |-> [pcs EXCEPT ![NewSlot(pcs)] = "init"], op |-> IF running THEN "noop" ELSE "started"]

\* start(): a no-op while is_running, else set the flag and start a new thread.
start(running, th, pcs) ==
    IF running
    THEN [is_running |-> running, thread |-> th, pc |-> pcs, op |-> "noop"]
    ELSE [is_running |-> TRUE, thread |-> NewSlot(pcs),
          pc |-> [pcs EXCEPT ![NewSlot(pcs)] = "init"], op |-> "started"]

Alive(t) == pc[t] \notin {"unborn", "done"}

\* ------------------------------------------------------ TikTokDataManager
MaxCount == 2
MaxClock == 2
MaxLines == 2
MaxLineLen == 2

\* What read_account_file() finds in a file: its number of valid lines (lines
\* that are neither blank nor comments), or a file that cannot be read.
Unreadable == -1
Counts == 0..MaxCount
\* datetime.now() readings.
Clock == 1..MaxClock

\* STANDARD_BRACKETS, the first two of its eleven labels in list order.
STANDARD_BRACKETS == <<"0-500", "500-1000">>
\* country_dir / f"{bracket}.txt"
BracketFile(b) == IF b = "0-500" THEN "0-500.txt" ELSE "500-1000.txt"

\* COUNTRY_NAMES, two of its entries (the Chinese names written in ASCII).
COUNTRY_NAMES == [US |-> "zh-US", CN |-> "zh-CN"]
\* COUNTRY_NAMES.get(country_code, country_code)
name_zh(code) == IF code \in DOMAIN COUNTRY_NAMES THEN COUNTRY_NAMES[code] ELSE code

\* The names that may exist below data_path.  "r2" and "CN" may also be plain
\* files, "notes.txt" is a file that is no bracket file, "ZZ" is a code that
\* COUNTRY_NAMES lacks.
RegionNames == {"r1", "r2"}
CodesOf(r) == IF r = "r1" THEN {"US", "CN"} ELSE {"ZZ"}
FilesOf(code) ==
    IF code = "US" THEN {"0-500.txt", "500-1000.txt", "notes.txt"} ELSE {"0-500.txt"}
ContentsOf(code, f) ==
    IF f = "notes.txt" THEN {1}
    ELSE IF code = "US" /\ f = "0-500.txt" THEN Counts \cup {Unreadable}
    ELSE Counts
PlainFileNames == {"r2", "CN"}

RECURSIVE country_total_counts_every_file(_, _), country_total(_, _)
RECURSIVE region_countries_keeps_empty(_, _, _), region_countries(_, _, _)
RECURSIVE SumTotals(_), walk(_, _, _)
RECURSIVE insert_before_equal(_, _), insert_sorted(_, _), sort_from(_, _)
RECURSIVE lstrip(_), rstrip(_)

Range(s) == {s[i] : i \in DOMAIN s}
\* The orders in which iterdir() may enumerate the names S.
Perms(S) ==
    {s \in [1..Cardinality(S) -> S] : \A i, j \in 1..Cardinality(S) : s[i] = s[j] => i = j}

\* read_account_file(): the number of valid lines, 0 when reading raises.
read_account_file(content) == IF content = Unreadable THEN 0 ELSE content

\* The same function on the text of a file.  A line is the sequence of its
\* characters without the line terminator (strip() removes the terminator with
\* the rest of the surrounding white space): a blank, the comment sign, or
\* another character.
Chars == {" ", "#", "a"}
\* The files: readable ones of up to MaxLines lines of up to MaxLineLen
\* characters, and one that open() or readlines() raises on (missing, no
\* permission, not UTF-8).
AccountFiles ==
    LET TextLines == UNION {[1..n -> Chars] : n \in 0..MaxLineLen} IN
    {[readable |-> TRUE, lines |-> ls] :
        ls \in UNION {[1..n -> TextLines] : n \in 0..MaxLines}}
    \cup {[readable |-> FALSE, lines |-> <<>>]}

\* str.strip() and str.startswith().
lstrip(line) ==
    IF line = <<>> THEN <<>>
    ELSE IF Head(line) = " " THEN lstrip(Tail(line))
    ELSE line
rstrip(line) ==
    IF line = <<>> THEN <<>>
    ELSE IF line[Len(line)] = " " THEN rstrip(SubSeq(line, 1, Len(line) - 1))
    ELSE line
strip(line) == rstrip(lstrip(line))
startswith(line, ch) == line # <<>> /\ Head(line) = ch

\* The list comprehension testing the comment sign on the line as read, not on
\* the stripped line.
valid_lines_tests_raw_line(lines) ==
    SelectSeq([i \in DOMAIN lines |-> lines[i]],
              LAMBDA l : strip(l) # <<>> /\ ~startswith(l, "#"))

\* Lines 148-149: [line.strip() for line in lines
\*                  if line.strip() and not line.strip().startswith('#')].
valid_lines(lines) ==
    SelectSeq([i \in DOMAIN lines |-> strip(lines[i])],
              LAMBDA l : l # <<>> /\ ~startswith(l, "#"))

\* read_account_file(file_path) on a text: len(valid_lines); every Exception
\* of opening or reading is logged and 0 is returned.
read_account_text(file) ==
    IF file.readable THEN Len(valid_lines(file.lines)) ELSE 0

\* Lines 189-196: the brackets whose file exists and counts more than 0.
country_brackets(files) ==
    [b \in {x \in Range(STANDARD_BRACKETS) :
                /\ BracketFile(x) \in DOMAIN files
                /\ read_account_file(files[BracketFile(x)]) > 0}
        |-> read_account_file(files[BracketFile(b)])]

\* Lines 189-196 with every file of the directory counted.
country_total_counts_every_file(files, bs) ==
    IF DOMAIN files = {} THEN 0
    ELSE LET f == CHOOSE x \in DOMAIN files : TRUE IN
         read_account_file(files[f])
         + country_total_counts_every_file([x \in DOMAIN files \ {f} |-> files[x]], bs)

\* Lines 189-196: country_total accumulated over the brackets bs in list order.
country_total(files, bs) ==
    IF bs = <<>> THEN 0
    ELSE LET file_path == BracketFile(Head(bs))
             count == IF file_path \in DOMAIN files
                      THEN read_account_file(files[file_path]) ELSE 0
         IN (IF count > 0 THEN count ELSE 0) + country_total(files, Tail(bs))

\* Lines 198-206: CountryData(...) of one country directory.
country_data(region_name, country_code, files) ==
    [code |-> country_code,
     name_zh |-> name_zh(country_code),
     region |-> region_name,
     brackets |-> country_brackets(files),
     total_accounts |-> country_total(files, STANDARD_BRACKETS),
     centroid |-> "tuple"]

\* Lines 179-212 without the test country_total > 0.
region_countries_keeps_empty(entries, region_name, cseq) ==
    IF cseq = <<>> THEN <<>>
    ELSE LET e == entries[Head(cseq)]
             rest == region_countries_keeps_empty(entries, region_name, Tail(cseq))
         IN IF ~e.is_dir THEN rest
            ELSE <<country_data(region_name, Head(cseq), e.files)>> \o rest

\* Lines 179-212: the countries of one region directory that total more than
\* 0, in the order cseq in which iterdir() enumerates its entries.
region_countries(entries, region_name, cseq) ==
    IF cseq = <<>> THEN <<>>
    ELSE LET e == entries[Head(cseq)]
             rest == region_countries(entries, region_name, Tail(cseq))
         IN IF ~e.is_dir THEN rest
            ELSE LET c == country_data(region_name, Head(cseq), e.files) IN
                 IF c.total_accounts > 0 THEN <<c>> \o rest ELSE rest

\* sum of total_accounts, as lines 210-211 accumulate it.
SumTotals(cs) ==
    IF cs = <<>> THEN 0 ELSE Head(cs).total_accounts + SumTotals(Tail(cs))

\* Lines 213-219: RegionData(...) of a region that retains a country.
region_data(region_name, cs) ==
    [name |-> region_name,
     countries |-> [code \in {cs[i].code : i \in DOMAIN cs} |->
                       (CHOOSE c \in Range(cs) : c.code = code).brackets],
     total_accounts |-> SumTotals(cs),
     total_countries |-> Cardinality({cs[i].code : i \in DOMAIN cs})]

\* Lines 168-219: the walk over the region directories in the order rseq;
\* corder[r] is the order of the entries of region r.
walk(tr, rseq, corder) ==
    IF rseq = <<>>
    THEN [countries_list |-> <<>>, regions_data |-> <<>>, total_accounts |-> 0]
    ELSE LET r == Head(rseq)
             rest == walk(tr, Tail(rseq), corder)
         IN IF ~tr[r].is_dir THEN rest
            ELSE LET cs == region_countries(tr[r].entries, r, corder[r]) IN
                 [countries_list |-> cs \o rest.countries_list,
                  regions_data |-> IF cs # <<>>
                                   THEN <<region_data(r, cs)>> \o rest.regions_data
                                   ELSE rest.regions_data,
                  total_accounts |-> SumTotals(cs) + rest.total_accounts]

\* The place list.sort(key, reverse=True) gives x among the sorted elements:
\* here before the elements whose key equals that of x.
insert_before_equal(x, sorted) ==
    IF sorted = <<>> THEN <<x>>
    ELSE IF Head(sorted).total_accounts > x.total_accounts
         THEN <<Head(sorted)>> \o insert_before_equal(x, Tail(sorted))
         ELSE <<x>> \o sorted

\* The place list.sort(key, reverse=True) gives x among the sorted elements
\* that preceded it: after every element whose key is at least that of x.
insert_sorted(x, sorted) ==
    IF sorted = <<>> THEN <<x>>
    ELSE IF Head(sorted).total_accounts >= x.total_accounts
         THEN <<Head(sorted)>> \o insert_sorted(x, Tail(sorted))
         ELSE <<x>> \o sorted

\* Line 222: countries_list.sort(key=lambda x: x.total_accounts, reverse=True),
\* the elements of cs placed one by one, done being the sorted prefix.
sort_from(cs, done) ==
    IF cs = <<>> THEN done ELSE sort_from(Tail(cs), insert_sorted(Head(cs), done))

sort_countries(cs) == sort_from(cs, <<>>)

\* asdict(c) as json.dumps writes it: a tuple is written as a list.
asdict_json(c) == [c EXCEPT !.centroid = "list"]

\* md5 of a text, two texts having the same digest only when they are equal.
md5(text) == <<"md5", text>>

\* _calculate_data_hash(): md5 of json.dumps([asdict(c) ...], sort_keys=True);
\* the keys are sorted, the list keeps its order.
calculate_data_hash(countries) ==
    md5([i \in DOMAIN countries |-> asdict_json(countries[i])])

\* The paths data_path may name that exist: two directories, told apart by
\* their absolute paths.
Dirs == {"dir", "dir_b"}

\* Lines 162-240: the aggregate built from the outcome w of the walk.
aggregated_data(path, w, now) ==
    LET countries_list == sort_countries(w.countries_list) IN
    [generated_at |-> now,
     data_source |-> path,
     brackets |-> STANDARD_BRACKETS,
     regions |-> [i \in DOMAIN w.regions_data |-> w.regions_data[i].name],
     countries |-> countries_list,
     totals |-> [accounts |-> w.total_accounts,
                 countries |-> Len(countries_list),
                 regions |-> Len(w.regions_data)],
     metadata |-> [scan_time |-> now,
                   data_hash |-> calculate_data_hash(countries_list)]]

\* parse_data_directory() returning an empty aggregate for a missing root.
parse_data_directory_empty_on_missing_root(path, tr, rseq, corder, now) ==
    LET w == IF path \in Dirs THEN walk(tr, rseq, corder)
             ELSE [countries_list |-> <<>>, regions_data |-> <<>>, total_accounts |-> 0]
    IN [raised |-> "none",
        regions_data |-> w.regions_data,
        aggregated |-> <<aggregated_data(path, w, now)>>]

\* parse_data_directory(): ValueError when data_path is unset or missing, else
\* the aggregate of the walk.  The clock readings of one call are one value.
parse_data_directory(path, tr, rseq, corder, now) ==
    IF path \notin Dirs
    THEN [raised |-> "ValueError", regions_data |-> <<>>, aggregated |-> <<>>]
    ELSE LET w == walk(tr, rseq, corder) IN
         [raised |-> "none",
          regions_data |-> w.regions_data,
          aggregated |-> <<aggregated_data(path, w, now)>>]

\* The file data_cache.json: absent, empty (truncated by open(..., 'w')),
\* corrupt (unreadable, or no JSON text of a cache entry), or a complete entry.
NoFile == [kind |-> "absent", data |-> <<>>]
EmptyFile == [kind |-> "empty", data |-> <<>>]
CorruptFile == [kind |-> "corrupt", data |-> <<>>]

\* asdict(data), as json.dump writes it.
asdict_data(data) ==
    [data EXCEPT !.countries = [i \in DOMAIN @ |-> asdict_json(@[i])]]

\* save_cache(): the complete text json.dump writes.
cache_entry(data) ==
    [kind |-> "entry",
     data |-> <<[data |-> asdict_data(data), cached_at |-> data.generated_at]>>]

\* load_cache() letting the exception of a corrupt file escape.
load_cache_raises_on_corrupt(file) ==
    IF file.kind = "entry"
    THEN [raised |-> "none", data |-> <<file.data[1].data>>]
    ELSE IF file.kind = "absent"
    THEN [raised |-> "none", data |-> <<>>]
    ELSE [raised |-> "JSONDecodeError", data |-> <<>>]

\* load_cache(): AggregatedData(**cache_data['data']) with CountryData(**c)
\* for every country (what JSON wrote as a list stays a list); None when the
\* file is absent, and when reading or decoding it raises.
load_cache(file) ==
    IF file.kind = "entry"
    THEN [raised |-> "none", data |-> <<file.data[1].data>>]
    ELSE [raised |-> "none", data |-> <<>>]

\* get_data() without the cache branch.
get_data_always_parses(file, use_cache, force_refresh, p) ==
    IF p.raised # "none"
    THEN [ret |-> <<>>, raised |-> p.raised, parsed |-> TRUE, save |-> <<>>]
    ELSE [ret |-> p.aggregated, raised |-> "none", parsed |-> TRUE,
          save |-> p.aggregated]

\* get_data(use_cache, force_refresh), p being what parse_data_directory()
\* yields when called: the value returned or the exception raised, whether
\* parse_data_directory() was called, and the data handed to save_cache().
get_data(file, use_cache, force_refresh, p) ==
    LET cached_data == IF use_cache /\ ~force_refresh
                       THEN load_cache(file)
                       ELSE [raised |-> "none", data |-> <<>>]
    IN IF cached_data.raised # "none"
       THEN [ret |-> <<>>, raised |-> cached_data.raised, parsed |-> FALSE,
             save |-> <<>>]
       ELSE IF cached_data.data # <<>>
       THEN [ret |-> cached_data.data, raised |-> "none", parsed |-> FALSE,
             save |-> <<>>]
       ELSE IF p.raised # "none"
       THEN [ret |-> <<>>, raised |-> p.raised, parsed |-> TRUE, save |-> <<>>]
       ELSE [ret |-> p.aggregated, raised |-> "none", parsed |-> TRUE,
             save |-> p.aggregated]

\* The execution contexts that use one cache file (the caller's and the
\* watcher's callback, or two processes started in one working directory).
Contexts == {"main", "watcher"}

\* No get_data() call recorded.
NoOp ==
    [call |-> "none", status |-> "none", use_cache |-> FALSE,
     force_refresh |-> FALSE, cache_kind |-> "absent", root |-> "None",
     parsed |-> FALSE, raised |-> "none", ret_kind |-> "none",
     cache_written |-> FALSE, torn_read |-> FALSE, next_same |-> FALSE,
     source_ok |-> TRUE]

\* ------------------------------------------------------ export_to_json()
\* save_cache(data) as one step: the entry written, or open() raising (the
\* file stays as it was), or json.dump raising (the file keeps a part); the
\* exception is logged and swallowed.
SaveOutcomes == {"ok", "open_raises", "dump_raises"}
save_cache(file, data, outcome) ==
    IF outcome = "ok" THEN cache_entry(data)
    ELSE IF outcome = "open_raises" THEN file
    ELSE CorruptFile

\* The dictionary export_to_json() builds from the aggregate: the keys of the
\* artifact, list(c.centroid) for every country.
output_data(data) ==
    [generatedAt |-> data.generated_at,
     brackets |-> data.brackets,
     totals |-> data.totals,
     countries |-> [i \in DOMAIN data.countries |->
                      LET c == data.countries[i] IN
                      [code |-> c.code,
                       nameZh |-> c.name_zh,
                       region |-> c.region,
                       centroid |-> "list",
                       byBracket |-> c.brackets,
                       totals |-> [accounts |-> c.total_accounts]]],
     regions |-> data.regions]

\* The output file: absent, a part of a text (open(..., 'w') truncated it and
\* json.dump did not finish, kind "partial"), or the complete text.
output_text(text) == [kind |-> "complete", data |-> <<text>>]

\* export_to_json() without the try/except: the exception escapes.
export_to_json_unguarded(g, write) ==
    IF g.raised # "none"
    THEN [ret |-> FALSE, raised |-> g.raised, output |-> "untouched", text |-> <<>>]
    ELSE IF write = "open_raises"
    THEN [ret |-> FALSE, raised |-> "OSError", output |-> "untouched", text |-> <<>>]
    ELSE IF write = "dump_raises"
    THEN [ret |-> FALSE, raised |-> "OSError", output |-> "partial", text |-> <<>>]
    ELSE [ret |-> TRUE, raised |-> "none", output |-> "complete",
          text |-> <<output_data(g.ret[1])>>]

\* export_to_json(output_path), g being the outcome of self.get_data() and
\* write what open() and json.dump do: every Exception is logged and False is
\* returned; True is returned after the with block has closed the file.
export_to_json(g, write) ==
    IF g.raised # "none"
    THEN [ret |-> FALSE, raised |-> "none", output |-> "untouched", text |-> <<>>]
    ELSE IF write = "open_raises"
    THEN [ret |-> FALSE, raised |-> "none", output |-> "untouched", text |-> <<>>]
    ELSE IF write = "dump_raises"
    THEN [ret |-> FALSE, raised |-> "none", output |-> "partial", text |-> <<>>]
    ELSE [ret |-> TRUE, raised |-> "none", output |-> "complete",
          text |-> <<output_data(g.ret[1])>>]

\* TikTokDataServer.refresh_data_file(): os.makedirs() of the directory of
\* output_file (it raises for a bare file name), then export_to_json(); e is
\* what that call yields.  Every Exception is logged and False is returned.
refresh_data_file(makedirs, e) ==
    IF makedirs = "raises"
    THEN [ret |-> FALSE, raised |-> "none", exported |-> FALSE]
    ELSE [ret |-> e.ret, raised |-> e.raised, exported |-> TRUE]

\* No export recorded.
NoExport ==
    [call |-> "none", ret |-> FALSE, raised |-> "none", failure |-> "none",
     output |-> "untouched", faithful |-> FALSE, cache_kind |-> "absent",
     root |-> "None", current |-> FALSE]

\* ------------------------------------------------------------------ history
\* Each history variable is recorded only by the specification that selects it
\* with track; in the others it keeps its initial value.
\* The directory as start() on an empty directory requires it.
EmptyDir == dirExists /\ DOMAIN fs = {}

\* quiet after a check_changes() call that returned r: the returns of the calls
\* made in a row since the directory last changed.
QuietAfter(r) ==
    IF quiet = "dirty" THEN (IF r THEN "T" ELSE "F")
    ELSE IF quiet = "T" THEN (IF r THEN "TT" ELSE "TF")
    ELSE IF quiet = "F" THEN (IF r THEN "FT" ELSE "FF")
    ELSE IF r THEN "TT" ELSE quiet

\* delTrack after a check_changes() call that returned r.
DelAfter(r) ==
    IF delTrack = "deleted" THEN (IF r THEN "firstT" ELSE "firstF")
    ELSE IF delTrack = "firstT" THEN (IF r THEN "secondT" ELSE "secondF")
    ELSE "idle"

\* scen after a check_changes() call that returned r.
ScenAfter(r) ==
    IF scen = "added" THEN (IF r THEN "called" ELSE "missed") ELSE scen

VoidScen == IF scen \in {"started", "added"} THEN "void" ELSE scen

SetQuiet(v) == quiet' = IF track = "quiet" THEN v ELSE quiet
SetDel(v) == delTrack' = IF track = "del" THEN v ELSE delTrack
SetScen(v) == scen' = IF track = "scen" THEN v ELSE scen
SetPending(v) == pending' = IF track = "retry" THEN v ELSE pending
SetStartOp(v) == startOp' = IF track = "start" THEN v ELSE startOp
SetTwOp(v) == twOp' = IF track = "tw" THEN v ELSE twOp
SetBurst(v) == burst' = IF track = "burst" THEN v ELSE burst

\* History after a change of the directory.
FsHist(newDel, newScen) ==
    /\ SetQuiet("dirty")
    /\ SetDel(newDel)
    /\ SetScen(newScen)
    /\ SetPending(NoThread)
    /\ SetStartOp("none")
    /\ SetTwOp("none")
    /\ SetBurst([changes |-> IF burst.changes < MaxBurst THEN burst.changes + 1
                             ELSE MaxBurst,
                 covered |-> burst.covered])
    /\ UNCHANGED <<track, dmVars>>

\* --------------------------------------------------------------- Init
\* The state after FileWatcher.__init__ and TikTokFileWatcher.__init__, the
\* watched directory existing and empty.
InitCore ==
    /\ fs = EmptyMap
    /\ dirExists = TRUE
    /\ file_states = EmptyMap
    /\ is_running = FALSE
    /\ thread = NoThread
    /\ pc = [t \in Threads |-> "unborn"]
    /\ caller = "idle"
    /\ quiet = "dirty"
    /\ delTrack = "idle"
    /\ scen = "none"
    /\ pending = NoThread
    /\ startOp = "none"
    /\ burst = [changes |-> 0, covered |-> 0]
    /\ tw_data_manager = "None"
    /\ tw_watcher = "None"
    /\ twOp = "none"
    /\ artifact = <<>>
    /\ data_path = "None"
    /\ tree = EmptyMap
    /\ tree_mtime = 1
    /\ cache_file = NoFile
    /\ saving = [c \in Contexts |-> <<>>]
    /\ parsed = <<>>
    /\ dmOp = NoOp
    /\ output_file = NoFile
    /\ exOp = NoExport
    /\ account_count = <<>>

\* The same with no text file at hand.
Init0 == InitCore /\ account_file = [readable |-> TRUE, lines |-> <<>>]

Init == Init0 /\ track = "none" /\ tw_enabled = TRUE

\* --------------------------------------------------- the watched directory
\* The files created in a run: a file that does not qualify is created where
\* the recorded history is about which files qualify or about the artifact.
\* Whether the loop ends does not depend on how many files there are: the run
\* that records nothing but is checked for termination creates one.
CreatedFiles ==
    IF track \in {"scen", "retry", "tw"} THEN Paths
    ELSE IF track \in {"live", "burst"} THEN {"a.txt"}
    ELSE TxtPaths

AddFile(p, m) ==
    /\ dirExists
    /\ p \in CreatedFiles
    /\ p \notin DOMAIN fs
    /\ fs' = [q \in DOMAIN fs \cup {p} |-> IF q = p THEN m ELSE fs[q]]
    /\ FsHist("idle", IF scen = "started" /\ p \in TxtPaths THEN "added" ELSE VoidScen)
    /\ UNCHANGED <<dirExists, fwVars, twCore>>

ModifyFile(p, m) ==
    /\ p \in DOMAIN fs
    /\ fs' = [fs EXCEPT ![p] = m]
    /\ FsHist("idle", VoidScen)
    /\ UNCHANGED <<dirExists, fwVars, twCore>>

DeleteFile(p) ==
    /\ p \in DOMAIN fs
    /\ fs' = [q \in DOMAIN fs \ {p} |-> fs[q]]
    /\ FsHist(IF p \in TxtPaths /\ p \in DOMAIN file_states THEN "deleted" ELSE "idle",
              VoidScen)
    /\ UNCHANGED <<dirExists, fwVars, twCore>>

RemoveDir ==
    /\ dirExists
    /\ dirExists' = FALSE
    /\ fs' = EmptyMap
    /\ FsHist("idle", VoidScen)
    /\ UNCHANGED <<fwVars, twCore>>

CreateDir ==
    /\ ~dirExists
    /\ dirExists' = TRUE
    /\ FsHist("idle", VoidScen)
    /\ UNCHANGED <<fs, fwVars, twCore>>

FsChange ==
    \/ \E p \in Paths : \E m \in MtimesOf(p) : AddFile(p, m)
    \/ \E p \in TxtPaths : \E m \in Mtimes : ModifyFile(p, m)
    \/ \E p \in Paths : DeleteFile(p)
    \/ RemoveDir
    \/ CreateDir

\* ------------------------------------------------------------- watch_loop
\* Line 79: the baseline scan, made by the background thread.
WatchInit(t) ==
    /\ pc[t] = "init"
    /\ file_states' = scan_files(fs, dirExists)
    /\ pc' = [pc EXCEPT ![t] = "test"]
    /\ SetQuiet("dirty")
    /\ SetDel("idle")
    /\ SetStartOp("none")
    /\ UNCHANGED <<fs, dirExists, is_running, thread, caller, track, burst, dmVars, scen,
                   pending, twVars>>

\* Line 79 raising (Path.exists() on an inaccessible parent): nothing catches
\* it there, the thread ends.
WatchInitRaise(t) ==
    /\ pc[t] = "init"
    /\ pc' = [pc EXCEPT ![t] = "done"]
    /\ SetScen(VoidScen)
    /\ SetStartOp("none")
    /\ UNCHANGED <<fs, dirExists, file_states, is_running, thread, caller,
                   track, burst, dmVars, quiet, delTrack, pending, twVars>>

\* Line 82: while self.is_running, first evaluated after the baseline scan.
WatchTest(t) ==
    /\ pc[t] = "test"
    /\ pc' = [pc EXCEPT ![t] = IF loop_condition(is_running) THEN "check" ELSE "done"]
    /\ SetStartOp("none")
    /\ UNCHANGED <<fs, dirExists, file_states, is_running, thread, caller,
                   track, burst, dmVars, quiet, delTrack, scen, pending, twVars>>

\* Line 84: check_changes() returns.
WatchCheck(t) ==
    /\ pc[t] = "check"
    /\ LET r == check_changes(file_states, scan_files(fs, dirExists)) IN
        /\ file_states' = r.file_states
        /\ pc' = [pc EXCEPT ![t] = after_check(r.ret)]
        /\ SetQuiet(QuietAfter(r.ret))
        /\ SetDel(DelAfter(r.ret))
        /\ SetScen(ScenAfter(r.ret))
    /\ SetPending(IF pending = t THEN NoThread ELSE pending)
    /\ SetStartOp("none")
    /\ SetBurst([changes |-> 0, covered |-> burst.changes])
    /\ UNCHANGED <<fs, dirExists, is_running, thread, caller, track, dmVars, twVars>>

\* Line 84 raising: caught at line 93, logged, then the sleep of line 95.
WatchCheckRaise(t) ==
    /\ pc[t] = "check"
    /\ pc' = [pc EXCEPT ![t] = "sleep_exc"]
    /\ SetScen(VoidScen)
    /\ SetStartOp("none")
    /\ UNCHANGED <<fs, dirExists, file_states, is_running, thread, caller,
                   track, burst, dmVars, quiet, delTrack, pending, twVars>>

\* Lines 86-89: the callback returns or raises.
WatchCallback(t) ==
    /\ pc[t] = "callback"
    /\ \E outcome \in {"ok", "raise"} :
        /\ pc' = [pc EXCEPT ![t] = after_callback(outcome)]
        /\ SetPending(IF outcome = "raise" THEN t ELSE pending)
    /\ SetStartOp("none")
    /\ UNCHANGED <<fs, dirExists, file_states, is_running, thread, caller,
                   track, burst, dmVars, quiet, delTrack, scen, twVars>>

\* Line 91 ("sleep") or line 95 ("sleep_exc"): time.sleep(check_interval)
\* returns and the thread evaluates the loop condition of line 82 (the wake-up
\* touches no shared state, so the two are one step).
WatchSleep(t) ==
    /\ pc[t] \in {"sleep", "sleep_exc"}
    /\ pc' = [pc EXCEPT ![t] = IF loop_condition(is_running) THEN "check" ELSE "done"]
    /\ SetStartOp("none")
    /\ UNCHANGED <<fs, dirExists, file_states, is_running, thread, caller,
                   track, burst, dmVars, quiet, delTrack, scen, pending, twVars>>

ThreadStep(t) ==
    \/ WatchInit(t)
    \/ WatchInitRaise(t)
    \/ WatchTest(t)
    \/ WatchCheck(t)
    \/ WatchCheckRaise(t)
    \/ WatchCallback(t)
    \/ WatchSleep(t)

\* ------------------------------------------------------------ start / stop
\* start(), by the single caller.  A new thread needs a free slot of the model.
Start ==
    /\ caller = "idle"
    /\ is_running \/ FreeSlots(pc) # {}
    /\ LET r == start(is_running, thread, pc) IN
        /\ is_running' = r.is_running
        /\ thread' = r.thread
        /\ pc' = r.pc
        /\ SetStartOp(IF r.op = "noop" THEN "noop" ELSE "none")
        /\ SetScen(IF r.op = "started" /\ scen = "none" /\ EmptyDir
                   THEN "started" ELSE scen)
    /\ UNCHANGED <<fs, dirExists, file_states, caller, track, burst, dmVars, quiet,
                   delTrack, pending, twVars>>

\* stop() called while not running: the early return of line 111.
StopNoop ==
    /\ caller = "idle"
    /\ ~is_running
    /\ SetStartOp("none")
    /\ UNCHANGED <<fs, dirExists, fwVars, track, burst, dmVars, quiet, delTrack, scen, pending,
                   twVars>>

\* stop() up to the join: clear the flag, then wait for self.thread.
StopBegin ==
    /\ caller = "idle"
    /\ is_running
    /\ is_running' = FALSE
    /\ caller' = IF thread # NoThread THEN "joining" ELSE "idle"
    /\ SetScen(VoidScen)
    /\ SetStartOp("none")
    /\ UNCHANGED <<fs, dirExists, file_states, thread, pc, track, burst, dmVars, quiet,
                   delTrack, pending, twVars>>

\* thread.join(timeout=2) returns because the thread has ended.
StopJoined ==
    /\ caller = "joining"
    /\ ~Alive(thread)
    /\ caller' = "idle"
    /\ SetStartOp("none")
    /\ UNCHANGED <<fs, dirExists, file_states, is_running, thread, pc,
                   track, burst, dmVars, quiet, delTrack, scen, pending, twVars>>

\* thread.join(timeout=2) returns on the timeout, the thread still alive.
StopTimedOut ==
    /\ caller = "joining"
    /\ Alive(thread)
    /\ caller' = "idle"
    /\ SetStartOp("none")
    /\ UNCHANGED <<fs, dirExists, file_states, is_running, thread, pc,
                   track, burst, dmVars, quiet, delTrack, scen, pending, twVars>>

Next ==
    \/ FsChange
    \/ \E t \in Threads : ThreadStep(t)
    \/ Start
    \/ StopNoop
    \/ StopBegin
    \/ StopJoined
    \/ StopTimedOut

Spec == Init /\ [][Next]_vars

\* The same program, recording one history each.
QuietInit == Init0 /\ track = "quiet" /\ tw_enabled = TRUE
QuietSpec == QuietInit /\ [][Next]_vars
DelInit == Init0 /\ track = "del" /\ tw_enabled = TRUE
DelSpec == DelInit /\ [][Next]_vars
ScenInit == Init0 /\ track = "scen" /\ tw_enabled = TRUE
ScenSpec == ScenInit /\ [][Next]_vars
RetryInit == Init0 /\ track = "retry" /\ tw_enabled = TRUE
RetrySpec == RetryInit /\ [][Next]_vars
StartInit == Init0 /\ track = "start" /\ tw_enabled = TRUE
StartSpec == StartInit /\ [][Next]_vars

\* The program with its scheduling: a live thread is eventually scheduled (the
\* scan, the callback and the sleep each end), and join(timeout=2) returns.
Fairness ==
    /\ \A t \in Threads : WF_vars(ThreadStep(t))
    /\ WF_vars(StopJoined \/ StopTimedOut)
LiveInit == Init0 /\ track = "live" /\ tw_enabled = TRUE
LiveSpec == LiveInit /\ [][Next]_vars /\ Fairness
BurstInit == Init0 /\ track = "burst" /\ tw_enabled = TRUE
BurstSpec == BurstInit /\ [][Next]_vars

\* ------------------------------------------------------ TikTokFileWatcher
\* Positional arguments of the call TikTokDataManager(data_dir, output_file).
InitDataManagerArgs == 2
\* Positional arguments TikTokDataManager.__init__(self, data_path=None) takes.
DataManagerInitParams == 1

\* The methods class TikTokDataManager defines.
DataManagerMethods ==
    {"__init__", "set_data_path", "load_config", "scan_data_directory",
     "read_account_file", "parse_data_directory", "_calculate_data_hash",
     "save_cache", "load_cache", "get_data", "export_to_json"}

\* init_data_manager(): construct the manager; every exception is re-raised.
init_data_manager ==
    IF InitDataManagerArgs <= DataManagerInitParams
    THEN [data_manager |-> "TikTokDataManager", raised |-> "none"]
    ELSE [data_manager |-> tw_data_manager, raised |-> "TypeError"]

\* on_file_change(): without a manager log and return; else call
\* data_manager.generate_json() inside try/except Exception.
on_file_change(dm) ==
    IF dm = "None" THEN "not_initialised"
    ELSE IF "generate_json" \in DataManagerMethods THEN "generated"
    ELSE "AttributeError"

\* start_watching(): return when disabled or the directory is missing; else
\* init_data_manager(), then create and start the FileWatcher.
TwStartWatching ==
    /\ IF ~tw_enabled \/ ~dirExists
       THEN /\ SetTwOp("start_watching_skipped")
            /\ UNCHANGED <<fwVars, tw_data_manager, tw_watcher>>
       ELSE LET m == init_data_manager IN
            /\ tw_data_manager' = m.data_manager
            /\ IF m.raised # "none"
               THEN /\ SetTwOp("start_watching_raised")
                    /\ UNCHANGED <<fwVars, tw_watcher>>
               ELSE LET r == start(is_running, thread, pc) IN
                    /\ tw_watcher' = "FileWatcher"
                    /\ is_running' = r.is_running
                    /\ thread' = r.thread
                    /\ pc' = r.pc
                    /\ SetTwOp("start_watching_started")
                    /\ UNCHANGED <<file_states, caller>>
    /\ UNCHANGED <<fs, dirExists, track, burst, dmVars, quiet, delTrack, scen, pending, startOp,
                   tw_enabled, artifact>>

\* on_file_change() called (it is the callback handed to the FileWatcher, and a
\* public method of the importable class).
TwOnFileChange ==
    /\ SetTwOp("on_file_change")
    /\ artifact' = IF on_file_change(tw_data_manager) = "generated"
                   THEN <<scan_files(fs, dirExists)>> ELSE artifact
    /\ UNCHANGED <<fs, dirExists, fwVars, track, burst, dmVars, quiet, delTrack, scen, pending,
                   startOp, tw_enabled, tw_data_manager, tw_watcher>>

TwNext ==
    \/ FsChange
    \/ TwStartWatching
    \/ TwOnFileChange

TwInit == Init0 /\ track = "tw" /\ tw_enabled \in BOOLEAN
TwSpec == TwInit /\ [][TwNext]_vars

\* ------------------------------------------- TikTokDataManager: the state
\* The run that records parse_data_directory() varies the whole tree; the runs
\* that record get_data() vary data_path, one bracket file and the cache file;
\* one context calls, or both where the record is about what a reader observes
\* while another context writes.
RegionScope == IF track = "parse" THEN RegionNames ELSE {"r1"}
CodeScope(r) == IF track = "parse" THEN CodesOf(r) ELSE {"US"}
FileScope(code) == IF track = "parse" THEN FilesOf(code) ELSE {"0-500.txt"}
PlainScope == IF track = "parse" THEN PlainFileNames ELSE {}
ContextScope == IF track = "torn" THEN Contexts ELSE {"main"}
\* The run that records data_source changes data_path between two directories.
DirScope == IF track = "source" THEN Dirs ELSE {"dir"}

baseVars == <<fs, dirExists, fwVars, histVars, twVars>>
otherVars == <<baseVars, output_file, exOp, account_file, account_count>>

\* The region directories of the tree, and the enumeration orders of each.
DirRegions(tr) == {r \in DOMAIN tr : tr[r].is_dir}
COrders(tr) ==
    {f \in [DirRegions(tr) -> UNION {Perms(DOMAIN tr[r].entries) : r \in DirRegions(tr)}] :
        \A r \in DirRegions(tr) : f[r] \in Perms(DOMAIN tr[r].entries)}

\* Every aggregate a parse_data_directory() call may return in this state.
FreshAggregates ==
    {parse_data_directory(data_path, tree, rseq, corder, now).aggregated :
        rseq \in Perms(DOMAIN tree), corder \in COrders(tree), now \in Clock}

\* Two aggregates with the same countries, totals and fingerprint, compared
\* as JSON writes them.
SameContent(a, b) ==
    /\ asdict_data(a).countries = asdict_data(b).countries
    /\ a.totals = b.totals
    /\ a.metadata.data_hash = b.metadata.data_hash

SetParsed(v) == parsed' = IF track = "parse" THEN v ELSE parsed
SetDmOp(v) ==
    dmOp' = IF track = "cache" THEN v
            ELSE IF track = "torn" THEN [NoOp EXCEPT !.torn_read = v.torn_read]
            ELSE IF track = "source"
            THEN [NoOp EXCEPT !.call = v.call, !.root = v.root,
                              !.ret_kind = v.ret_kind, !.source_ok = v.source_ok]
            ELSE dmOp

\* Whether a get_data(use_cache=True, force_refresh=False) call made right now
\* with the cache file f returns the countries, totals and fingerprint of data,
\* the directory being as it was when data was parsed (so that a new
\* parse_data_directory() call yields data again).
NextSame(f, data) ==
    LET p == [raised |-> "none", regions_data |-> <<>>, aggregated |-> <<data>>]
        g == get_data(f, TRUE, FALSE, p)
    IN g.ret # <<>> /\ SameContent(g.ret[1], data)

\* ----------------------------------------- the data directory and the cache
\* set_data_path(path), by a context that is not inside get_data(): data_path
\* is assigned whether or not the path exists; the directory named is written
\* to afterwards.
SetDataPath(exists) ==
    /\ \E c \in ContextScope : saving[c] = <<>>
    /\ \E d \in DirScope : data_path' = IF exists THEN d ELSE "missing"
    /\ tree' = EmptyMap
    /\ SetParsed(<<>>)
    /\ UNCHANGED <<otherVars, tree_mtime, cache_file, saving, dmOp>>

RemoveRoot ==
    /\ data_path \in Dirs
    /\ data_path' = "missing"
    /\ tree' = EmptyMap
    /\ SetParsed(<<>>)
    /\ UNCHANGED <<otherVars, tree_mtime, cache_file, saving, dmOp>>

CreateRoot ==
    /\ data_path = "missing"
    /\ data_path' = "dir"
    /\ SetParsed(<<>>)
    /\ UNCHANGED <<otherVars, tree, tree_mtime, cache_file, saving, dmOp>>

MakeRegion(r, d) ==
    /\ data_path \in Dirs
    /\ r \in RegionScope \ DOMAIN tree
    /\ d \/ r \in PlainScope
    /\ tree' = [x \in DOMAIN tree \cup {r} |->
                   IF x = r THEN [is_dir |-> d, entries |-> EmptyMap] ELSE tree[x]]
    /\ SetParsed(<<>>)
    /\ UNCHANGED <<otherVars, data_path, tree_mtime, cache_file, saving, dmOp>>

RemoveRegion(r) ==
    /\ r \in DOMAIN tree
    /\ tree' = [x \in DOMAIN tree \ {r} |-> tree[x]]
    /\ SetParsed(<<>>)
    /\ UNCHANGED <<otherVars, data_path, tree_mtime, cache_file, saving, dmOp>>

MakeCountry(r, c, d) ==
    /\ r \in DirRegions(tree)
    /\ c \in CodeScope(r) \ DOMAIN tree[r].entries
    /\ d \/ c \in PlainScope
    /\ tree' = [tree EXCEPT ![r].entries =
                   [x \in DOMAIN @ \cup {c} |->
                       IF x = c THEN [is_dir |-> d, files |-> EmptyMap] ELSE @[x]]]
    /\ SetParsed(<<>>)
    /\ UNCHANGED <<otherVars, data_path, tree_mtime, cache_file, saving, dmOp>>

RemoveCountry(r, c) ==
    /\ r \in DirRegions(tree)
    /\ c \in DOMAIN tree[r].entries
    /\ tree' = [tree EXCEPT ![r].entries = [x \in DOMAIN @ \ {c} |-> @[x]]]
    /\ SetParsed(<<>>)
    /\ UNCHANGED <<otherVars, data_path, tree_mtime, cache_file, saving, dmOp>>

\* A file is created or rewritten with the content n.
WriteFile(r, c, f, n) ==
    /\ r \in DirRegions(tree)
    /\ c \in DOMAIN tree[r].entries
    /\ tree[r].entries[c].is_dir
    /\ f \in FileScope(c)
    /\ f \in DOMAIN tree[r].entries[c].files => tree[r].entries[c].files[f] # n
    /\ tree' = [tree EXCEPT ![r].entries[c].files =
                   [x \in DOMAIN @ \cup {f} |-> IF x = f THEN n ELSE @[x]]]
    /\ SetParsed(<<>>)
    /\ UNCHANGED <<otherVars, data_path, tree_mtime, cache_file, saving, dmOp>>

RemoveFile(r, c, f) ==
    /\ r \in DirRegions(tree)
    /\ c \in DOMAIN tree[r].entries
    /\ tree[r].entries[c].is_dir
    /\ f \in DOMAIN tree[r].entries[c].files
    /\ tree' = [tree EXCEPT ![r].entries[c].files = [x \in DOMAIN @ \ {f} |-> @[x]]]
    /\ SetParsed(<<>>)
    /\ UNCHANGED <<otherVars, data_path, tree_mtime, cache_file, saving, dmOp>>

\* The files get another modification time, their contents staying.
TouchTree(m) ==
    /\ data_path \in Dirs
    /\ m # tree_mtime
    /\ tree_mtime' = m
    /\ UNCHANGED <<otherVars, data_path, tree, cache_file, saving, parsed, dmOp>>

TreeChange ==
    \/ \E exists \in BOOLEAN : SetDataPath(exists)
    \/ RemoveRoot
    \/ CreateRoot
    \/ \E r \in RegionNames : \E d \in BOOLEAN : MakeRegion(r, d)
    \/ \E r \in RegionNames : RemoveRegion(r)
    \/ \E r \in RegionNames : \E c \in CodesOf(r) : \E d \in BOOLEAN : MakeCountry(r, c, d)
    \/ \E r \in RegionNames : \E c \in CodesOf(r) : RemoveCountry(r, c)
    \/ \E r \in RegionNames : \E c \in CodesOf(r) : \E f \in FilesOf(c) :
          \E n \in ContentsOf(c, f) : WriteFile(r, c, f, n)
    \/ \E r \in RegionNames : \E c \in CodesOf(r) : \E f \in FilesOf(c) :
          RemoveFile(r, c, f)

\* The cache file is damaged or removed from outside the program.
DamageCache ==
    /\ cache_file.kind \in {"entry", "empty"}
    /\ cache_file' = CorruptFile
    /\ UNCHANGED <<otherVars, data_path, tree, tree_mtime, saving, parsed, dmOp>>

RemoveCache ==
    /\ cache_file.kind # "absent"
    /\ cache_file' = NoFile
    /\ UNCHANGED <<otherVars, data_path, tree, tree_mtime, saving, parsed, dmOp>>

\* ------------------------------------------------- parse_data_directory()
ParseDataDirectory ==
    \E rseq \in Perms(DOMAIN tree) : \E corder \in COrders(tree) : \E now \in Clock :
        /\ SetParsed(<<[out |-> parse_data_directory(data_path, tree, rseq, corder, now),
                        rseq |-> rseq, corder |-> corder]>>)
        /\ UNCHANGED <<otherVars, data_path, tree, tree_mtime, cache_file, saving, dmOp>>

ParseNext ==
    \/ TreeChange
    \/ \E m \in Mtimes : TouchTree(m)
    \/ ParseDataDirectory

ParseInit == Init0 /\ track = "parse" /\ tw_enabled = TRUE
ParseSpec == ParseInit /\ [][ParseNext]_vars

\* --------------------------------------------------------------- get_data()
\* get_data(use_cache, force_refresh) called by context c, up to its return or
\* up to save_cache() having opened the cache file: open(..., 'w') truncates
\* the file, or raises (the directory is not writable), which save_cache()
\* logs and swallows.
GetData(c) ==
    /\ c \in ContextScope
    /\ saving[c] = <<>>
    /\ \E use_cache \in BOOLEAN, force_refresh \in BOOLEAN, open_ok \in BOOLEAN :
       \E rseq \in Perms(DOMAIN tree) : \E corder \in COrders(tree) : \E now \in Clock :
        LET p == parse_data_directory(data_path, tree, rseq, corder, now)
            g == get_data(cache_file, use_cache, force_refresh, p)
            opens == g.save # <<>> /\ open_ok
            op == [call |-> "get_data",
                   status |-> IF g.raised # "none" THEN "raised"
                              ELSE IF opens THEN "saving" ELSE "returned",
                   use_cache |-> use_cache,
                   force_refresh |-> force_refresh,
                   cache_kind |-> cache_file.kind,
                   root |-> data_path,
                   parsed |-> g.parsed,
                   raised |-> g.raised,
                   ret_kind |-> IF g.ret = <<>> THEN "none"
                                ELSE IF cache_file.kind = "entry"
                                        /\ g.ret[1] = cache_file.data[1].data
                                     THEN "cached"
                                ELSE IF g.ret \in FreshAggregates THEN "fresh"
                                ELSE "other",
                   cache_written |-> opens,
                   torn_read |-> /\ use_cache /\ ~force_refresh
                                 /\ cache_file.kind = "empty"
                                 /\ \E w \in Contexts \ {c} : saving[w] # <<>>,
                   next_same |-> g.ret # <<>> /\ ~opens /\ NextSame(cache_file, g.ret[1]),
                   source_ok |-> g.ret = <<>> \/ g.ret[1].data_source = data_path]
        IN /\ cache_file' = IF opens THEN EmptyFile ELSE cache_file
           /\ saving' = IF opens THEN [saving EXCEPT ![c] = g.save] ELSE saving
           /\ SetDmOp(op)
    /\ UNCHANGED <<otherVars, data_path, tree, tree_mtime, parsed>>

\* json.dump wrote the entry and the file is closed: save_cache() and then
\* get_data() return.  Where another context wrote the file since this one
\* opened it, the text of this one overwrites the beginning of the other.
SaveClose(c) ==
    /\ saving[c] # <<>>
    /\ \E f \in IF cache_file.kind = "empty"
                THEN {cache_entry(saving[c][1])}
                ELSE {cache_entry(saving[c][1]), CorruptFile} :
        /\ cache_file' = f
        /\ SetDmOp([dmOp EXCEPT !.status = "returned",
                                !.next_same = NextSame(f, saving[c][1])])
    /\ saving' = [saving EXCEPT ![c] = <<>>]
    /\ UNCHANGED <<otherVars, data_path, tree, tree_mtime, parsed>>

\* json.dump raises (the disk is full): the file keeps the part written,
\* save_cache() logs and swallows the exception, get_data() returns the data.
SaveRaise(c) ==
    /\ saving[c] # <<>>
    /\ cache_file' = CorruptFile
    /\ saving' = [saving EXCEPT ![c] = <<>>]
    /\ SetDmOp([dmOp EXCEPT !.status = "returned",
                            !.next_same = NextSame(CorruptFile, saving[c][1])])
    /\ UNCHANGED <<otherVars, data_path, tree, tree_mtime, parsed>>

CacheNext ==
    \/ TreeChange
    \/ DamageCache
    \/ RemoveCache
    \/ \E c \in Contexts : GetData(c)
    \/ \E c \in Contexts : SaveClose(c)
    \/ \E c \in Contexts : SaveRaise(c)

CacheInit == Init0 /\ track = "cache" /\ tw_enabled = TRUE
CacheSpec == CacheInit /\ [][CacheNext]_vars
TornInit == Init0 /\ track = "torn" /\ tw_enabled = TRUE
TornSpec == TornInit /\ [][CacheNext]_vars
SourceInit == Init0 /\ track = "source" /\ tw_enabled = TRUE
SourceSpec == SourceInit /\ [][CacheNext]_vars

\* ------------------------------------------ export_to_json(), the calls
\* export_to_json(output_file) called directly, or through
\* TikTokDataServer.refresh_data_file(), by a context that is not inside
\* get_data(): self.get_data() with its defaults (the cache is read; on a miss
\* the directory is parsed and save_cache() runs), then the output file is
\* opened and written.
\* The run that records exports reads one value from the clock; fresh is every
\* aggregate a parse_data_directory() call may return at that time.
ExportToJson(call) ==
    /\ saving["main"] = <<>>
    /\ \E makedirs \in IF call = "refresh_data_file" THEN {"ok", "raises"} ELSE {"ok"} :
       \E rseq \in Perms(DOMAIN tree) : \E corder \in COrders(tree) : \E now \in {1} :
        LET p == parse_data_directory(data_path, tree, rseq, corder, now)
            g == get_data(cache_file, TRUE, FALSE, p)
            exported == makedirs = "ok"
            fresh == {parse_data_directory(data_path, tree, rs, co, now).aggregated :
                        rs \in Perms(DOMAIN tree), co \in COrders(tree)}
        IN \* save_cache() runs on a cache miss, open() when get_data() returned
           \E save \in IF exported /\ g.save # <<>> THEN SaveOutcomes ELSE {"ok"} :
           \E write \in IF exported /\ g.raised = "none" THEN SaveOutcomes ELSE {"ok"} :
            LET e == export_to_json(g, write)
                r == refresh_data_file(makedirs, e)
                out == IF exported /\ e.output = "complete" THEN output_text(e.text[1])
                       ELSE IF exported /\ e.output = "partial"
                       THEN [kind |-> "partial", data |-> <<>>]
                       ELSE output_file
                op == [call |-> call,
                       ret |-> IF call = "export_to_json" THEN e.ret ELSE r.ret,
                       raised |-> IF call = "export_to_json" THEN e.raised ELSE r.raised,
                       failure |-> IF makedirs = "raises" THEN "makedirs"
                                   ELSE IF g.raised # "none" THEN "get_data"
                                   ELSE IF write = "open_raises" THEN "open"
                                   ELSE IF write = "dump_raises" THEN "dump"
                                   ELSE "none",
                       output |-> IF exported THEN e.output ELSE "untouched",
                       faithful |-> /\ exported
                                    /\ g.ret # <<>>
                                    /\ out = output_text(output_data(g.ret[1])),
                       cache_kind |-> cache_file.kind,
                       root |-> data_path,
                       current |-> /\ out.kind = "complete"
                                   /\ \E a \in fresh :
                                        /\ a # <<>>
                                        /\ out.data[1].countries = output_data(a[1]).countries
                                        /\ out.data[1].totals = output_data(a[1]).totals]
            IN /\ cache_file' = IF exported /\ g.save # <<>>
                                THEN save_cache(cache_file, g.save[1], save)
                                ELSE cache_file
               /\ output_file' = out
               /\ exOp' = op
    /\ UNCHANGED <<baseVars, account_file, account_count, data_path, tree,
                   tree_mtime, saving, parsed, dmOp>>

ExportNext ==
    \/ TreeChange
    \/ DamageCache
    \/ RemoveCache
    \/ \E call \in {"export_to_json", "refresh_data_file"} : ExportToJson(call)

ExportInit == Init0 /\ track = "export" /\ tw_enabled = TRUE
ExportSpec == ExportInit /\ [][ExportNext]_vars

\* -------------------------------------------- read_account_file(), a text
\* read_account_file() is applied to the file at hand.
ReadAccountFile ==
    /\ account_count = <<>>
    /\ account_count' = <<read_account_text(account_file)>>
    /\ UNCHANGED <<baseVars, output_file, exOp, account_file, data_path, tree,
                   tree_mtime, cache_file, saving, parsed, dmOp>>

LinesInit == InitCore /\ track = "lines" /\ tw_enabled = TRUE /\ account_file \in AccountFiles
LinesSpec == LinesInit /\ [][ReadAccountFile]_vars

\* ----------------------------------------------------------------- claims
MapsDiffer(a, b) ==
    \/ \E p \in DOMAIN a : p \notin DOMAIN b
    \/ \E p \in DOMAIN a \cap DOMAIN b : a[p] # b[p]
    \/ \E p \in DOMAIN b : p \notin DOMAIN a

\* A step in which thread t's check_changes() call returns True / False.
CheckReturnedTrue(t) == pc[t] = "check" /\ pc'[t] = "callback"
CheckReturnedFalse(t) == pc[t] = "check" /\ pc'[t] = "sleep"

\* C1: check_changes() returns True iff the fresh snapshot differs from the
\* held file_states as a mapping (a path added, a path with another mtime, or
\* a path gone), and False exactly when the two mappings are equal.
C1_TrueIffSnapshotDiffers ==
    [][\A t \in Threads :
        /\ CheckReturnedTrue(t) => MapsDiffer(scan_files(fs, dirExists), file_states)
        /\ CheckReturnedFalse(t) => ~MapsDiffer(scan_files(fs, dirExists), file_states)
      ]_vars

\* A call returned True on an empty fresh snapshot: only deletions differed.
C1_Witness ==
    \E t \in Threads : pc[t] = "callback" /\ dirExists /\ DOMAIN file_states = {}

\* C2: a check_changes() call that returns True has replaced file_states by
\* the snapshot scanned in that call; one that returns False leaves it as it was.
C2_CommitOnlyOnTrue ==
    [][\A t \in Threads :
        /\ CheckReturnedTrue(t) => file_states' = scan_files(fs, dirExists)
        /\ CheckReturnedFalse(t) => file_states' = file_states
      ]_vars

\* A call returned True and the committed baseline holds the files scanned.
C2_Witness ==
    \E t \in Threads :
        /\ pc[t] = "callback"
        /\ DOMAIN file_states # {}
        /\ file_states = scan_files(fs, dirExists)

\* C3: a second check_changes() call in a row, the directory not changed in
\* between, returns False, whatever the first call returned.
C3_SecondCallFalse == quiet \notin {"TT", "FT"}

\* Two calls in a row: the first returned True, the second False.
C3_Witness == quiet = "TF"

\* C4: after a baseline file is deleted the next check_changes() call returns
\* True, and the call after it, nothing else changed, returns False.
C4_DeletionReportedOnce == delTrack \notin {"firstF", "secondT"}

\* The deletion was reported by the first call and not by the second.
C4_Witness == delTrack = "secondF"

\* C5: start() on an empty directory, then one .txt file added after start()
\* returned, the watcher not stopped: the poll that follows the addition
\* reports it, so the callback is invoked.
C5_AddedFileReported == scen # "missed"

\* C6: with the TikTokFileWatcher watching an existing data directory, a change
\* runs on_file_change, which exports a refreshed aggregate: after the callback
\* the artifact reflects the directory.
C6_CallbackExports ==
    /\ twOp \in {"start_watching_raised", "start_watching_started"}
          => tw_watcher = "FileWatcher" /\ tw_data_manager = "TikTokDataManager"
    /\ twOp = "on_file_change" => artifact = <<scan_files(fs, dirExists)>>

\* C7: an exception of the callback or of the change check never ends the
\* loop: a thread leaves watch_loop only at the loop test (after the baseline
\* scan or after a sleep), is_running False.
C7_LoopExitsOnlyWhenStopped ==
    [][\A t \in Threads :
        (pc[t] \in {"test", "check", "callback", "sleep", "sleep_exc"} /\ pc'[t] = "done")
            => (pc[t] \in {"test", "sleep", "sleep_exc"} /\ ~is_running)
      ]_vars

\* The change check of a thread raised; the thread is still in the loop, in the
\* sleep of the exception handler, and the watcher is running.
C7_Witness == \E t \in Threads : pc[t] = "sleep_exc" /\ is_running

\* C8: after the callback raised, the next poll of the loop invokes the
\* callback again although the directory has not changed since.
C8_FailedRefreshRetried ==
    [][\A t \in Threads :
        (pending = t /\ pc[t] = "check" /\ pc'[t] \in {"callback", "sleep"})
            => pc'[t] = "callback"
      ]_vars

\* C9: start() while is_running is a no-op: no thread is created and
\* is_running, thread and file_states stay as they were.
C9_StartWhileRunningNoop ==
    [][startOp' = "noop" => UNCHANGED <<is_running, thread, file_states, pc>>]_vars

\* start() was called while the watcher was running.
C9_Witness == startOp = "noop" /\ is_running /\ Alive(thread)

\* C10: at most one thread executes watch_loop at any time.
C10_AtMostOneLoopThread == Cardinality({t \in Threads : Alive(t)}) <= 1

\* C11: once stop() has cleared the flag, and unless start() sets it again,
\* every loop thread eventually ends; and a stop() waiting in join() always
\* returns, whether or not the thread has ended.
C11_StopTerminatesLoop ==
    /\ (~is_running) ~> (is_running \/ \A t \in Threads : ~Alive(t))
    /\ (caller = "joining") ~> (caller = "idle")

\* stop() has returned on the join timeout, the loop thread still alive.
C11_Witness ==
    /\ ~is_running
    /\ caller = "idle"
    /\ thread # NoThread
    /\ Alive(thread)

\* C12: get_data(use_cache=True, force_refresh=False) with a loadable cache
\* entry returns that entry, does not call parse_data_directory() and does not
\* write the cache file; every other get_data() call calls
\* parse_data_directory().
C12_CacheHitSkipsParse ==
    dmOp.call = "get_data" =>
        IF dmOp.use_cache /\ ~dmOp.force_refresh /\ dmOp.cache_kind = "entry"
        THEN /\ ~dmOp.parsed
             /\ ~dmOp.cache_written
             /\ dmOp.status = "returned"
             /\ dmOp.ret_kind = "cached"
        ELSE dmOp.parsed

\* A call answered from the cache, the directory holding other data by then.
C12_Witness ==
    /\ dmOp.status = "returned"
    /\ dmOp.ret_kind = "cached"
    /\ dmOp.use_cache /\ ~dmOp.force_refresh
    /\ cache_file.kind = "entry"
    /\ \A a \in FreshAggregates :
          a = <<>> \/ ~SameContent(a[1], cache_file.data[1].data)

\* C13: when get_data() has taken the refresh path and returned an aggregate,
\* a get_data(use_cache=True, force_refresh=False) call made right after the
\* return yields the same countries, totals and fingerprint.
C13_RefreshStored ==
    (dmOp.status = "returned" /\ dmOp.parsed /\ dmOp.ret_kind # "none")
        => dmOp.next_same

\* C14: a get_data(use_cache=True) call that finds a corrupt or unreadable
\* cache file falls through to parse_data_directory(): load_cache() raises
\* nothing, and the call returns the fresh aggregate, or raises what
\* parse_data_directory() raises for a missing root.
C14_CorruptCacheIsMiss ==
    (dmOp.call = "get_data" /\ dmOp.use_cache /\ dmOp.cache_kind \in {"corrupt", "empty"})
        => /\ dmOp.parsed
           /\ dmOp.raised # "none" => (dmOp.raised = "ValueError" /\ dmOp.root # "dir")
           /\ dmOp.raised = "none" => dmOp.ret_kind = "fresh"

\* A call that found the cache corrupt has returned a fresh aggregate and
\* replaced the corrupt file by its entry.
C14_Witness ==
    /\ dmOp.status = "returned"
    /\ dmOp.use_cache /\ ~dmOp.force_refresh
    /\ dmOp.cache_kind = "corrupt"
    /\ dmOp.ret_kind = "fresh"
    /\ cache_file.kind = "entry"

\* C15: with data_path unset or missing parse_data_directory() raises
\* ValueError; a get_data() call that reaches it raises the same, returns
\* nothing and does not write the cache file.
C15_MissingRootRaises ==
    (dmOp.call = "get_data" /\ dmOp.parsed /\ dmOp.root # "dir")
        => /\ dmOp.raised = "ValueError"
           /\ dmOp.status = "raised"
           /\ dmOp.ret_kind = "none"
           /\ ~dmOp.cache_written

\* A forced refresh has raised for a missing root, the entry of an earlier
\* refresh still in the cache file.
C15_Witness ==
    /\ dmOp.status = "raised"
    /\ dmOp.root = "missing"
    /\ dmOp.cache_kind = "entry"
    /\ cache_file.kind = "entry"

\* C16: no load_cache() call reads the cache file while it is torn, that is
\* truncated and not yet rewritten by a save_cache() of another context.
C16_NoTornRead == ~dmOp.torn_read

\* The latest parse_data_directory() call returned an aggregate.
Aggregated == parsed # <<>> /\ parsed[1].out.raised = "none"
LastAggregate == parsed[1].out.aggregated[1]

RECURSIVE SumOf(_, _)
\* The sum of f[x] over x in S.
SumOf(f, S) ==
    IF S = {} THEN 0
    ELSE LET x == CHOOSE y \in S : TRUE IN f[x] + SumOf(f, S \ {x})

\* C17: in every aggregate each country's total_accounts is the sum of its
\* brackets' counts, each RegionData's total_accounts is the sum of the
\* total_accounts of its countries, and totals.accounts is the sum of
\* total_accounts over the countries list.
C17_TotalsAreSums ==
    Aggregated =>
        LET cs == LastAggregate.countries
            rs == parsed[1].out.regions_data
            totalOf == [i \in DOMAIN cs |-> cs[i].total_accounts]
        IN /\ \A i \in DOMAIN cs :
                cs[i].total_accounts = SumOf(cs[i].brackets, DOMAIN cs[i].brackets)
           /\ \A j \in DOMAIN rs :
                rs[j].total_accounts =
                    SumOf(totalOf, {i \in DOMAIN cs : cs[i].region = rs[j].name})
           /\ LastAggregate.totals.accounts = SumOf(totalOf, DOMAIN cs)

\* An aggregate of two regions, one of them with two countries, one country
\* with two brackets, next to a file that is no bracket file.
C17_Witness ==
    /\ Aggregated
    /\ Len(LastAggregate.regions) = 2
    /\ Len(LastAggregate.countries) = 3
    /\ \E i \in DOMAIN LastAggregate.countries :
          /\ Cardinality(DOMAIN LastAggregate.countries[i].brackets) = 2
          /\ "notes.txt" \in DOMAIN tree["r1"].entries["US"].files

\* The sum of what read_account_file() returns for the bracket files among
\* files.
BracketFileSum(files) ==
    SumOf([f \in DOMAIN files |-> read_account_file(files[f])],
          {f \in DOMAIN files : \E i \in DOMAIN STANDARD_BRACKETS :
                                   f = BracketFile(STANDARD_BRACKETS[i])})

\* The country directories whose bracket files sum to more than 0.
QualifyingCountries ==
    {rc \in UNION {{<<r, c>> : c \in DOMAIN tree[r].entries} : r \in DirRegions(tree)} :
        /\ tree[rc[1]].entries[rc[2]].is_dir
        /\ BracketFileSum(tree[rc[1]].entries[rc[2]].files) > 0}

\* C18: the aggregate lists exactly the country directories whose bracket
\* files sum to more than 0, each once, and exactly the regions that hold such
\* a country, each once; totals.countries and totals.regions are their
\* numbers; an empty root gives no countries, no regions and 0 accounts.
C18_OnlyNonEmptyIncluded ==
    Aggregated =>
        LET cs == LastAggregate.countries
            rs == LastAggregate.regions
        IN /\ {<<cs[i].region, cs[i].code>> : i \in DOMAIN cs} = QualifyingCountries
           /\ Len(cs) = Cardinality(QualifyingCountries)
           /\ Range(rs) = {rc[1] : rc \in QualifyingCountries}
           /\ Len(rs) = Cardinality({rc[1] : rc \in QualifyingCountries})
           /\ LastAggregate.totals.countries = Cardinality(QualifyingCountries)
           /\ LastAggregate.totals.regions =
                 Cardinality({rc[1] : rc \in QualifyingCountries})
           /\ tree = EmptyMap =>
                 (cs = <<>> /\ rs = <<>> /\ LastAggregate.totals.accounts = 0)

\* An aggregate with a country, of a tree that also holds a country directory
\* with only an empty bracket file and a region directory without countries.
C18_Witness ==
    /\ Aggregated
    /\ LastAggregate.countries # <<>>
    /\ \E r \in DirRegions(tree) : r \notin Range(LastAggregate.regions)
    /\ \E r \in DirRegions(tree) : \E c \in DOMAIN tree[r].entries :
          /\ tree[r].entries[c].is_dir
          /\ DOMAIN tree[r].entries[c].files # {}
          /\ <<r, c>> \notin QualifyingCountries

\* The place of an element in a sequence without repetitions.
Pos(seq, x) == CHOOSE i \in DOMAIN seq : seq[i] = x

\* Whether the walk of the latest call met country a before country b.
TraversedBefore(a, b) ==
    LET rseq == parsed[1].rseq
        corder == parsed[1].corder
    IN \/ Pos(rseq, a.region) < Pos(rseq, b.region)
       \/ /\ a.region = b.region
          /\ Pos(corder[a.region], a.code) < Pos(corder[a.region], b.code)

\* C19: the countries list is non-increasing in total_accounts, and countries
\* with equal totals are in the order in which the walk met them.
C19_SortedDescendingStable ==
    Aggregated =>
        LET cs == LastAggregate.countries IN
        \A i, j \in DOMAIN cs :
            i < j => /\ cs[i].total_accounts >= cs[j].total_accounts
                     /\ cs[i].total_accounts = cs[j].total_accounts
                          => TraversedBefore(cs[i], cs[j])

\* An aggregate of three countries, two of them with equal totals, the third
\* with more and met last by the walk.
C19_Witness ==
    /\ Aggregated
    /\ LET cs == LastAggregate.countries IN
        /\ Len(cs) = 3
        /\ cs[2].total_accounts = cs[3].total_accounts
        /\ cs[1].total_accounts > cs[2].total_accounts
        /\ TraversedBefore(cs[3], cs[1])

\* C20: two parse_data_directory() calls on the same directory contents yield
\* the same data_hash, whatever the modification times of the files, the
\* clock and the enumeration orders of the two calls.
C20_SameContentSameHash ==
    [][(Aggregated /\ parsed' # <<>> /\ parsed'[1].out.raised = "none")
          => parsed'[1].out.aggregated[1].metadata.data_hash
               = LastAggregate.metadata.data_hash]_vars

\* C21: export_to_json() and refresh_data_file() never raise: whatever fails on
\* the way (a missing data root, the output file not opening, the write
\* breaking off), the call returns False; and True is returned only when the
\* output file holds the complete text of the aggregate get_data() gave.
C21_ExportNeverRaises ==
    exOp.call # "none" =>
        /\ exOp.raised = "none"
        /\ exOp.failure # "none" => exOp.ret = FALSE
        /\ exOp.ret = TRUE => exOp.output = "complete" /\ exOp.faithful

\* An export with the data root missing and the cache empty returned False.
C21_Witness ==
    /\ exOp.call = "export_to_json"
    /\ exOp.failure = "get_data"
    /\ data_path = "missing"
    /\ exOp.ret = FALSE
    /\ exOp.raised = "none"

\* C22: read_account_file() returns the number of lines that, trimmed, are not
\* empty and do not begin with '#'; for a file that cannot be read it returns 0.
C22_CountsValidLines ==
    LET \* the first character that is not white space exists and is not '#'
        IsAccountLine(line) ==
            \E i \in DOMAIN line :
                /\ line[i] \notin {" ", "#"}
                /\ \A j \in 1..(i - 1) : line[j] = " "
    IN
    account_count # <<>> =>
        account_count[1] =
            IF account_file.readable
            THEN Cardinality({i \in DOMAIN account_file.lines :
                                IsAccountLine(account_file.lines[i])})
            ELSE 0

\* A file of an indented comment and an account line padded with white space
\* was counted as 1.
C22_Witness ==
    /\ account_count = <<1>>
    /\ account_file.readable
    /\ account_file.lines = << <<" ", "#">>, <<"a", " ">> >>

\* C23: an export that returns True has written the countries and totals of an
\* aggregation of the data directory as it is when the call is made, also when
\* the cache file holds a loadable entry written before the directory changed
\* (the data root existing when the call is made).
C23_ExportIsCurrent ==
    (exOp.ret = TRUE /\ exOp.root = "dir") => exOp.current

\* C24: when a check_changes() call returns, True or False, file_states is
\* equal as a mapping to the snapshot scanned in that call.
C24_BaselineIsLastSnapshot ==
    [][\A t \in Threads :
        (CheckReturnedTrue(t) \/ CheckReturnedFalse(t))
            => ~MapsDiffer(file_states', scan_files(fs, dirExists))
      ]_vars

\* A thread sleeps after its poll and the baseline is the directory as it is:
\* both files, one of them with a later mtime.
C24_Witness ==
    \E t \in Threads :
        /\ pc[t] = "sleep"
        /\ Cardinality(DOMAIN file_states) = 2
        /\ \E p \in DOMAIN file_states : file_states[p] = MaxMtime
        /\ file_states = scan_files(fs, dirExists)

\* C25: once stop() has returned and start() has not been called since (the
\* flag is clear and the caller is not inside stop()), no callback invocation
\* begins: no check_changes() call of a loop thread returns True into the
\* callback.
C25_NoCallbackAfterStop ==
    [][\A t \in Threads :
        CheckReturnedTrue(t) => (is_running \/ caller = "joining")
      ]_vars

\* C26: a loop thread begins a callback invocation only in the step in which
\* its check_changes() call returned True (the fresh snapshot differing from
\* the baseline), one invocation per poll however many changes the poll
\* covers; and when the invocation ends the thread sleeps, so that the next
\* invocation needs another poll of the same loop.
C26_CallbackOncePerTruePoll ==
    [][\A t \in Threads :
        /\ (pc'[t] = "callback" /\ pc[t] # "callback")
              => /\ pc[t] = "check"
                 /\ check_changes(file_states, scan_files(fs, dirExists)).ret
                 /\ MapsDiffer(file_states, scan_files(fs, dirExists))
        /\ (pc[t] = "callback" /\ pc'[t] # "callback") => pc'[t] = "sleep"
      ]_vars

\* The only thread ever started is in the callback, and its poll, the latest,
\* covered two changes of the directory.
C26_Witness ==
    \E t \in Threads :
        /\ pc[t] = "callback"
        /\ \A u \in Threads \ {t} : pc[u] = "unborn"
        /\ burst.covered = MaxBurst
        /\ burst.changes = 0

\* C27: an aggregate get_data() returns while data_path names an existing
\* directory has that directory's path as its data_source, also after
\* set_data_path() named another directory than the one the cache entry was
\* written for.
C27_SourceIsCurrentPath ==
    (dmOp.call = "get_data" /\ dmOp.root \in Dirs) => dmOp.source_ok

====
